---- MODULE Spec2Model ----
(***************************************************************************)
(* A model of the Discord auto-messaging bot of src/bot.py: the per-user   *)
(* configuration store (ConfigManager), the delivery and error logs and    *)
(* the delivery loops (MessageScheduler), and the command handlers that    *)
(* drive them.                                                             *)
(*                                                                         *)
(* Conventions of the model                                                *)
(*  - Text (str) is a sequence of one-character strings, so that slicing,  *)
(*    strip, isdigit, int() and str() are computed as Python computes them.*)
(*  - A Python dict holding a config is an object of the heap, named by    *)
(*    its ObjId: two places of the program that hold the same dict see     *)
(*    each other's in-place updates, as they do in Python.                 *)
(*  - The clock `now` counts minutes; datetime.now().isoformat() is the    *)
(*    reading of that clock.  asyncio.sleep(interval * 60) ends interval   *)
(*    ticks later, asyncio.sleep(60) one tick later.  A coroutine that is  *)
(*    ready to run, and a network call in flight, completes before the     *)
(*    clock advances (they take far less than a minute).                   *)
(*  - Every action is one run of a handler or coroutine between two        *)
(*    suspension points (await): asyncio runs such a piece atomically.     *)
(***************************************************************************)
EXTENDS Integers, Sequences, FiniteSets, TLC

\* ------------------------------------------------------------------ bounds

\* The clock stops at MaxTime.
MaxTime == 1
\* The number of delivery loops (asyncio tasks) ever created.
MaxTasks == 2
\* The number of config dicts ever created by setup_user_schedule.
MaxSetups == 1
\* The number of entries each log may take in the bot's run.
MaxLogged == 1
\* The same bounds where the commands are left out (SpecStub, SpecLong).
MaxStubTime == 4
MaxStubTasks == 3
MaxStubLogged == 4
MaxStubSetups == 2
\* The number of edit_command runs that get past the first message.
MaxEdits == 1
\* Calls of log_message, and of log_error, in the log store's own run, and
\* how far from full the logs of a previous run are.
MaxLogCalls == 3
Prefilled == 2

\* The users that talk to the bot (ctx.author.id).
Users == {1, 2}
\* The users that run the setup wizard, the dashboard and edit_command; the
\* others have the config that the file holds for them, and stop and start it.
Actors == {1}

\* ------------------------------------------------------ program constants

MAX_MESSAGE_LOGS == 1000
MAX_ERROR_LOGS == 500
MESSAGE_BUDGET == 100
ERROR_BUDGET == 500
RETRY_MINUTES == 1
MIN_INTERVAL == 1

\* None, where the program stores a timestamp or nothing.
None == -1
\* No object / no task.
NoObj == 0
NoTask == 0

\* --------------------------------------------------------------- text

AsciiDigits == <<"0", "1", "2", "3", "4", "5", "6", "7", "8", "9">>

IsAsciiDigit(c) == \E i \in 1..10 : AsciiDigits[i] = c

\* str.isdigit() also accepts digits that are not decimal, such as the
\* superscript two, which int() then refuses.
IsDigitChar(c) == IsAsciiDigit(c) \/ c = "^2"

isdigit(s) == Len(s) > 0 /\ \A i \in 1..Len(s) : IsDigitChar(s[i])

\* int(s) raises ValueError unless every character is a decimal digit.
IntRaises(s) == Len(s) = 0 \/ \E i \in 1..Len(s) : ~IsAsciiDigit(s[i])

DigitVal(c) == (CHOOSE i \in 1..10 : AsciiDigits[i] = c) - 1

RECURSIVE int(_)
int(s) == IF Len(s) = 0 THEN 0
          ELSE 10 * int(SubSeq(s, 1, Len(s) - 1)) + DigitVal(s[Len(s)])

RECURSIVE str(_)
str(n) == IF n < 10 THEN <<AsciiDigits[n + 1]>>
          ELSE str(n \div 10) \o <<AsciiDigits[(n % 10) + 1]>>

\* str.strip() removes blanks and line ends.
IsSpace(c) == c \in {" ", "\n"}

RECURSIVE lstrip(_)
lstrip(s) == IF Len(s) > 0 /\ IsSpace(s[1]) THEN lstrip(Tail(s)) ELSE s

RECURSIVE rstrip(_)
rstrip(s) == IF Len(s) > 0 /\ IsSpace(s[Len(s)])
             THEN rstrip(SubSeq(s, 1, Len(s) - 1)) ELSE s

strip(s) == rstrip(lstrip(s))

\* s[:n]
Prefix(s, n) == SubSeq(s, 1, IF Len(s) < n THEN Len(s) ELSE n)

\* s[-n:]
Last(s, n) == SubSeq(s, IF Len(s) > n THEN Len(s) - n + 1 ELSE 1, Len(s))

\* -------------------------------------------------------------- state

VARIABLES
    now,            \* the clock, in minutes
    ready,          \* on_ready has run
    heap,           \* the config dicts ever created, by ObjId
    data,           \* scheduler.user_manager.data: user -> ObjId, or NoObj
    disk,           \* USER_DATA_FILE as last written by save_data
    tasks,          \* the asyncio tasks ever created by start_user_schedule
    active_tasks,   \* scheduler.active_tasks: user -> task, or NoTask
    logs,           \* scheduler.logs: [messages, errors]
    logfile,        \* LOG_FILE as last written by save_logs
    outbox,         \* the messages the Messaging Client has delivered
    dash,           \* per user, the dashboard view on screen and its closures
    edit,           \* per user, the position of a running edit_command
    edits,          \* the number of edit_command runs so far
    halted,         \* per user: disabled by a stop, and not started or set up since
    stub,           \* the run leaves the commands out and has the wider bounds
    file,           \* USER_DATA_FILE as the file system has it: state, writable
    panel,          \* the admin panel on screen: shown, confirmation, failures
    appended        \* every entry ever appended to each log, in order

vars == <<now, ready, heap, data, disk, tasks, active_tasks, logs, logfile,
          outbox, dash, edit, edits, halted, stub, file, panel,
          appended>>

\* The text of a user id, of the literals the program formats, and the values
\* the users type.
SystemText == <<"s", "y", "s", "t", "e", "m">>
ChannelText == <<"C", "h", "a", "n", "n", "e", "l", " ">>
NotFoundText == <<" ", "n", "o", "t", " ", "f", "o", "u", "n", "d">>
ScheduleErrorText ==
    <<"E", "r", "r", "o", "r", " ", "i", "n", " ", "u", "s", "e", "r", " ",
      "s", "c", "h", "e", "d", "u", "l", "e", " ">>
CommandErrorText ==
    <<"E", "r", "r", "o", "r", " ", "i", "n", " ", "c", "o", "m", "m", "a",
      "n", "d", " ">>
SetupErrorText ==
    <<"U", "n", "e", "x", "p", "e", "c", "t", "e", "d", " ", "s", "e", "t",
      "u", "p", " ", "e", "r", "r", "o", "r", ":", " ">>
ColonText == <<":", " ">>
\* str(e) of the exceptions the model raises.
ValueErrorText == <<"i", "n", "v", "a", "l", "i", "d">>
RateLimitText == <<"4", "2", "9">>

\* str(e) of the ValueError of int(s): it quotes s.
ValueError(s) == ValueErrorText \o ColonText \o s

\* A config dict (setup_user_schedule builds every one of them).
NoConfig ==
    [token |-> <<>>, channel_id |-> <<>>, interval |-> 0, message |-> <<>>,
     enabled |-> FALSE, created_at |-> None, last_sent |-> None,
     total_sent |-> 0]

\* A config that keeps the interval in seconds.
NewConfig_seconds(token, channel_id, interval_minutes, message, ts) ==
    [token |-> token, channel_id |-> str(channel_id),
     interval |-> interval_minutes * 60, message |-> message, enabled |-> TRUE,
     created_at |-> ts, last_sent |-> None, total_sent |-> 0]

NewConfig(token, channel_id, interval_minutes, message, ts) ==
    [token |-> token, channel_id |-> str(channel_id),
     interval |-> interval_minutes, message |-> message, enabled |-> TRUE,
     created_at |-> ts, last_sent |-> None, total_sent |-> 0]

\* The configs a previous run of the bot may have left in USER_DATA_FILE.
PersistedConfigs ==
    { [NewConfig(<<"K">>, 7, 1, <<"h", "i">>, 0) EXCEPT !.enabled = e] :
        e \in BOOLEAN }

\* ------------------------------------------------------- ConfigManager

\* get_user_config: the dict held for the user, or the empty dict.
get_user_config(d, user_id) == d[user_id]

\* `not config`
IsEmpty(obj) == obj = NoObj

\* What json.dump(self.data) writes.
FileOf(h, d) ==
    [u \in Users |-> IF IsEmpty(d[u]) THEN [present |-> FALSE, config |-> NoConfig]
                     ELSE [present |-> TRUE, config |-> h[d[u]]]]

\* save_data
save_data(h, d) == FileOf(h, d)

\* USER_DATA_FILE is there, can be opened and holds what json.dump wrote, and
\* can be written.
SoundFile == [state |-> "ok", write |-> "ok"]

\* What the file system may make of the file: gone, not to be opened,
\* holding text that json.load refuses, or sound.
FileStates == {"missing", "unreadable", "corrupt", "ok"}

\* What becomes of a write: it succeeds, open(filename, 'w') fails (the file
\* is left as it was), or json.dump fails after open has truncated the file.
WriteModes == {"ok", "denied", "cut"}

\* The empty mapping, {}.
NoData == [u \in Users |-> [present |-> FALSE, config |-> NoConfig]]

\* A load_data without its try: the exception of open or json.load leaves it.
load_data_unguarded(f, onfile) ==
    IF f.state = "missing" THEN [raised |-> FALSE, value |-> NoData]
    ELSE IF f.state \in {"unreadable", "corrupt"}
    THEN [raised |-> TRUE, value |-> NoData]
    ELSE [raised |-> FALSE, value |-> onfile]

\* load_data of the file f whose sound content is onfile: what it returns,
\* and whether an exception leaves it.
load_data(f, onfile) ==
    IF f.state = "missing" THEN [raised |-> FALSE, value |-> NoData]
    ELSE IF f.state \in {"unreadable", "corrupt"}
    THEN [raised |-> FALSE, value |-> NoData]
    ELSE [raised |-> FALSE, value |-> onfile]

\* save_data where the write may fail: the file and its content afterwards,
\* and whether an exception leaves save_data.
write_data(f, onfile, h, d) ==
    IF f.write = "ok"
    THEN [raised |-> FALSE, file |-> [f EXCEPT !.state = "ok"], onfile |-> FileOf(h, d)]
    ELSE IF f.write = "denied"
    THEN [raised |-> FALSE, file |-> f, onfile |-> onfile]
    ELSE [raised |-> FALSE, file |-> [f EXCEPT !.state = "corrupt"], onfile |-> onfile]

\* A set_user_config that stores the dict under every key.
set_user_config_shared(d, user_id, obj) == [u \in DOMAIN d |-> obj]

\* set_user_config: self.data[str(user_id)] = config; save_data()
set_user_config(d, user_id, obj) == [d EXCEPT ![user_id] = obj]

\* A delete that empties the whole mapping.
delete_every_config(d, user_id) == [u \in Users |-> NoObj]

\* delete_user_config
delete_user_config(d, user_id) == [d EXCEPT ![user_id] = NoObj]

delete_returns(d, user_id) == ~IsEmpty(d[user_id])

\* A get_all_users that finds no user.
get_no_users(d) == {}

\* get_all_users: the keys of self.data.
get_all_users(d) == {u \in Users : ~IsEmpty(d[u])}

\* ---------------------------------------------------------- Log Store

\* A delivery entry that keeps the whole message.
MessageEntry_whole(ts, user_id, channel_id, message, status) ==
    [timestamp |-> ts, user_id |-> str(user_id), channel_id |-> channel_id,
     message |-> message, status |-> status]

MessageEntry(ts, user_id, channel_id, message, status) ==
    [timestamp |-> ts, user_id |-> str(user_id), channel_id |-> channel_id,
     message |-> Prefix(message, MESSAGE_BUDGET), status |-> status]

ErrorEntry(ts, error_message, user_id) ==
    [timestamp |-> ts,
     user_id |-> IF user_id = 0 THEN SystemText ELSE str(user_id),
     error |-> Prefix(error_message, ERROR_BUDGET)]

\* A cut that keeps the oldest `bound` entries.
Bounded_oldest(list, bound) ==
    IF Len(list) > bound THEN Prefix(list, bound) ELSE list

\* The list after append and the cut to its last `bound` entries.
Bounded(list, bound) == IF Len(list) > bound THEN Last(list, bound) ELSE list

\* A log_message that appends nothing.
log_message_dropped(L, ts, user_id, channel_id, message, status) == L

log_message(L, ts, user_id, channel_id, message, status) ==
    [L EXCEPT !.messages =
        Bounded(Append(@, MessageEntry(ts, user_id, channel_id, message, status)),
                MAX_MESSAGE_LOGS)]

log_error(L, ts, error_message, user_id) ==
    [L EXCEPT !.errors =
        Bounded(Append(@, ErrorEntry(ts, error_message, user_id)), MAX_ERROR_LOGS)]

\* save_logs
save_logs(L) == L

\* ------------------------------------------------------------ tasks

\* An asyncio task running run_user_schedule(user): its position and the
\* locals of the coroutine.  A task that has finished or was cancelled has
\* no frame left.
\*   created  scheduled by create_task, not yet run
\*   sleep    in `await asyncio.sleep(interval * 60)`, until `wake`
\*   send     in `await channel.send(message)`, `cfg` being the local config
\*   backoff  in `await asyncio.sleep(60)` of the except clause, until `wake`
\*   done     returned (line 163) or left the loop (line 176)
\*   cancelled
Finished(user_id, pc) ==
    [user |-> user_id, pc |-> pc, interval |-> 0, channel_id |-> <<>>,
     message |-> <<>>, wake |-> 0, cfg |-> NoObj]

\* create_task: the coroutine is scheduled to run at once (call_soon).
create_task(user_id) == [Finished(user_id, "created") EXCEPT !.wake = now]

IsLive(t) == t.pc \notin {"done", "cancelled"}

\* A cancel() that the coroutine swallows (an except clause that catches
\* CancelledError): the task goes on.
cancel_swallowed(T, t) == T

\* Task.cancel(): CancelledError is thrown into the coroutine at its await (or
\* before its first step); it is no Exception, so run_user_schedule's except
\* clause does not catch it.  Cancelling a finished task does nothing.
cancel(T, t) ==
    IF IsLive(T[t]) THEN [T EXCEPT ![t] = Finished(T[t].user, "cancelled")] ELSE T

\* start_user_schedule without its "Cancel existing task if any".
start_user_schedule_uncancelled(h, d, T, A, user_id) ==
    LET config == get_user_config(d, user_id) IN
    IF IsEmpty(config) \/ ~h[config].enabled
    THEN [tasks |-> T, active_tasks |-> A]
    ELSE LET T2 == Append(T, create_task(user_id))
         IN  [tasks |-> T2, active_tasks |-> [A EXCEPT ![user_id] = Len(T2)]]

\* start_user_schedule, as the new (tasks, active_tasks).
start_user_schedule(h, d, T, A, user_id) ==
    LET config == get_user_config(d, user_id) IN
    IF IsEmpty(config) \/ ~h[config].enabled
    THEN [tasks |-> T, active_tasks |-> A]
    ELSE LET T1 == IF A[user_id] # NoTask THEN cancel(T, A[user_id]) ELSE T
             T2 == Append(T1, create_task(user_id))
         IN  [tasks |-> T2, active_tasks |-> [A EXCEPT ![user_id] = Len(T2)]]

\* stop_user_schedule that cancels the task and leaves it registered.
stop_user_schedule_registered(T, A, user_id) ==
    IF A[user_id] # NoTask
    THEN [tasks |-> cancel(T, A[user_id]), active_tasks |-> A]
    ELSE [tasks |-> T, active_tasks |-> A]

\* stop_user_schedule that forgets the task without cancelling it.
stop_user_schedule_forgetful(T, A, user_id) ==
    [tasks |-> T, active_tasks |-> [A EXCEPT ![user_id] = NoTask]]

\* stop_user_schedule, as the new (tasks, active_tasks).
stop_user_schedule(T, A, user_id) ==
    IF A[user_id] # NoTask
    THEN [tasks |-> cancel(T, A[user_id]),
          active_tasks |-> [A EXCEPT ![user_id] = NoTask]]
    ELSE [tasks |-> T, active_tasks |-> A]

\* get_user_stats: None, or the config dict (by reference) and the figures.
get_user_stats(h, d, L, user_id) ==
    LET config == get_user_config(d, user_id)
        user_logs == SelectSeq(L.messages, LAMBDA e : e.user_id = str(user_id))
    IN  IF IsEmpty(config) THEN [none |-> TRUE, config |-> NoObj, stats |-> NoConfig]
        ELSE [none |-> FALSE, config |-> config,
              stats |->
                [total_sent |-> h[config].total_sent,
                 successful_logs |->
                    Len(SelectSeq(user_logs, LAMBDA e : e.status = "sent")),
                 failed_logs |->
                    Len(SelectSeq(user_logs, LAMBDA e : e.status = "failed")),
                 last_sent |-> h[config].last_sent,
                 created_at |-> h[config].created_at]]

\* The live delivery loops of a user, among the tasks T and now.
LiveIn(T, user_id) == {t \in 1..Len(T) : T[t].user = user_id /\ IsLive(T[t])}

LiveLoops(user_id) == LiveIn(tasks, user_id)

\* --------------------------------------------------------- frame helpers

\* The bound in force: of the bot's run, or of a run that leaves commands out.
Bound(real, stubbed) == IF stub THEN stubbed ELSE real

\* The logs become L; msgs and errs are the entries appended on the way.
Logged(L, msgs, errs) ==
    /\ logs' = L
    /\ logfile' = save_logs(L)
    /\ appended' = [messages |-> appended.messages \o msgs,
                    errors |-> appended.errors \o errs]

NoLog == UNCHANGED <<logs, logfile, appended>>

\* The scheduler's tasks become those of S, within the bound on tasks.
Scheduled(S) ==
    /\ Len(S.tasks) <= Bound(MaxTasks, MaxStubTasks)
    /\ tasks' = S.tasks
    /\ active_tasks' = S.active_tasks

\* The dicts that something still refers to: the mapping, a coroutine's
\* local, a dashboard's closure, a running edit_command.  The others are
\* garbage, and the heap forgets them.
Referenced(d, T, D, E) ==
    {d[u] : u \in Users} \cup {T[t].cfg : t \in 1..Len(T)}
        \cup {D[u].config : u \in Users} \cup {E[u].config : u \in Users}

Collect(h, d, T, D, E) ==
    [o \in 1..Len(h) |-> IF o \in Referenced(d, T, D, E) THEN h[o] ELSE NoConfig]

\* The heap becomes h (after data', tasks', dash' and edit' are set).
Heap(h) == heap' = Collect(h, data', tasks', dash', edit')

\* ---------------------------------------------------------------- Init

NoPanel == [open |-> FALSE, confirm |-> FALSE, failed |-> FALSE]
NoDash == [open |-> FALSE, config |-> NoObj, enabled |-> FALSE]
NoEdit == [pc |-> "idle", config |-> NoObj]

\* The bot after construction: the configs of USER_DATA_FILE loaded (object u
\* is user u's, when the file has one), the logs of LOG_FILE loaded, no task.
Init ==
    /\ now = 0
    /\ ready = FALSE
    /\ \E present \in SUBSET Users :
        /\ heap \in [Users -> PersistedConfigs \cup {NoConfig}]
        /\ \A u \in Users : (heap[u] = NoConfig) <=> (u \notin present)
        /\ data = [u \in Users |-> IF u \in present THEN u ELSE NoObj]
    /\ disk = FileOf(heap, data)
    /\ tasks = <<>>
    /\ active_tasks = [u \in Users |-> NoTask]
    /\ logs = [messages |-> <<>>, errors |-> <<>>]
    /\ logfile = logs
    /\ outbox = <<>>
    /\ dash = [u \in Users |-> NoDash]
    /\ edit = [u \in Users |-> NoEdit]
    /\ edits = 0
    /\ halted = [u \in Users |-> FALSE]
    /\ stub = FALSE
    /\ file = SoundFile
    /\ panel = NoPanel
    /\ appended = logs

\* ------------------------------------------------------ setup_command

\* '\n'.join(lines)
RECURSIVE join(_)
join(lines) ==
    IF Len(lines) = 0 THEN <<>>
    ELSE IF Len(lines) = 1 THEN lines[1]
    ELSE lines[1] \o <<"\n">> \o join(Tail(lines))

\* The four values setup_command reads from the lines of the reply.
SetupFields(lines) ==
    [token |-> strip(lines[1]), channel_id |-> strip(lines[2]),
     interval |-> strip(lines[3]),
     message |-> strip(join(SubSeq(lines, 4, Len(lines))))]

\* A validation without the minimum of the interval.
SetupOutcome_unbounded(lines) ==
    IF Len(lines) < 4 THEN "rejected"
    ELSE LET f == SetupFields(lines) IN
         IF Len(f.token) = 0 THEN "rejected"
         ELSE IF ~isdigit(f.channel_id) THEN "rejected"
         ELSE IF ~isdigit(f.interval) THEN "rejected"
         ELSE IF IntRaises(f.interval) THEN "raised"
         ELSE IF Len(f.message) = 0 THEN "rejected"
         ELSE IF IntRaises(f.channel_id) THEN "raised"
         ELSE "ok"

\* How setup_command leaves its validation: "rejected" (a message to the
\* user and return), "raised" (int() raised ValueError, caught by the outer
\* except clause) or "ok".
SetupOutcome(lines) ==
    IF Len(lines) < 4 THEN "rejected"
    ELSE LET f == SetupFields(lines) IN
         IF Len(f.token) = 0 THEN "rejected"
         ELSE IF ~isdigit(f.channel_id) THEN "rejected"
         ELSE IF ~isdigit(f.interval) THEN "rejected"
         ELSE IF IntRaises(f.interval) THEN "raised"
         ELSE IF int(f.interval) < MIN_INTERVAL THEN "rejected"
         ELSE IF Len(f.message) = 0 THEN "rejected"
         ELSE IF IntRaises(f.channel_id) THEN "raised"
         ELSE "ok"

\* The replies to the setup form that the users send: lines of text.
SetupReplies ==
    { << <<"K">>, <<"7">>, <<"1">>, <<"h", "i">> >>,
      << <<"K", " ">>, <<"0", "8">>, <<"2">>, <<" ", "y", "o">> >>,
      << <<"K">>, <<"7">>, <<"1">> >>,
      << <<" ">>, <<"7">>, <<"1">>, <<"h", "i">> >>,
      << <<"K">>, <<"c">>, <<"1">>, <<"h", "i">> >>,
      << <<"K">>, <<"7">>, <<"0">>, <<"h", "i">> >>,
      << <<"K">>, <<"7">>, <<"x">>, <<"h", "i">> >>,
      << <<"K">>, <<"7">>, <<"1">>, <<" ">> >> }

\* The replies that setup_command accepts.
ValidSetupReplies == {lines \in SetupReplies : SetupOutcome(lines) = "ok"}

\* SetupReplies, and the replies whose numbers pass isdigit() and fail int().
WizardReplies ==
    SetupReplies \cup
        { << <<"K">>, <<"^2">>, <<"1">>, <<"h", "i">> >>,
          << <<"K">>, <<"7">>, <<"^2">>, <<"h", "i">> >> }

\* setup_user_schedule(user_id, token, channel_id, interval_minutes, message):
\* a new dict is stored for the user and the user's schedule is started.
setup_user_schedule(user_id, token, channel_id, interval_minutes, message) ==
    LET config == Len(heap) + 1
        h == Append(heap, NewConfig(token, channel_id, interval_minutes, message, now))
        d == set_user_config(data, user_id, config)
    IN  /\ Len(heap) < Cardinality(Users) + Bound(MaxSetups, MaxStubSetups)
        /\ data' = d
        /\ disk' = save_data(h, d)
        /\ Scheduled(start_user_schedule(h, d, tasks, active_tasks, user_id))
        /\ Heap(h)

\* setup_command, from the reply to the form on.
setup_command(user_id, lines) ==
    LET outcome == SetupOutcome(lines)
        f == SetupFields(lines)
    IN  /\ UNCHANGED <<now, ready, outbox, dash, edit, edits, stub, file, panel>>
        /\ CASE outcome = "ok" ->
                /\ setup_user_schedule(user_id, f.token, int(f.channel_id),
                                       int(f.interval), f.message)
                /\ NoLog
                /\ halted' = [halted EXCEPT ![user_id] = FALSE]
             [] outcome = "raised" ->
                /\ Len(logs.errors) < Bound(MaxLogged, MaxStubLogged)
                /\ Logged(log_error(logs, now, SetupErrorText \o ValueError(IF IntRaises(f.interval) THEN f.interval ELSE f.channel_id), user_id),
                          <<>>,
                          <<ErrorEntry(now, SetupErrorText \o ValueError(IF IntRaises(f.interval) THEN f.interval ELSE f.channel_id), user_id)>>)
                /\ UNCHANGED <<data, disk, tasks, active_tasks, halted>>
                /\ Heap(heap)
             [] OTHER ->
                /\ UNCHANGED <<data, disk, tasks, active_tasks, logs, logfile,
                               appended, halted>>
                /\ Heap(heap)

\* ------------------------------------------- stop_command, start_command

\* config["enabled"] = value, on the dict itself.
SetEnabled(h, config, value) == [h EXCEPT ![config].enabled = value]

stop_command(user_id) ==
    LET user_stats == get_user_stats(heap, data, logs, user_id)
        config == user_stats.config
        h == SetEnabled(heap, config, FALSE)
        d == set_user_config(data, user_id, config)
    IN  /\ ~user_stats.none
        /\ data' = d
        /\ disk' = save_data(h, d)
        /\ Scheduled(stop_user_schedule(tasks, active_tasks, user_id))
        /\ NoLog
        /\ UNCHANGED <<now, ready, outbox, dash, edit, edits, stub, file, panel>>
        /\ halted' = [halted EXCEPT ![user_id] = TRUE]
        /\ Heap(h)

start_command(user_id) ==
    LET user_stats == get_user_stats(heap, data, logs, user_id)
        config == user_stats.config
        h == SetEnabled(heap, config, TRUE)
        d == set_user_config(data, user_id, config)
    IN  /\ ~user_stats.none
        /\ data' = d
        /\ disk' = save_data(h, d)
        /\ Scheduled(start_user_schedule(h, d, tasks, active_tasks, user_id))
        /\ NoLog
        /\ UNCHANGED <<now, ready, outbox, dash, edit, edits, stub, file, panel>>
        /\ halted' = [halted EXCEPT ![user_id] = FALSE]
        /\ Heap(h)

\* ---------------------------------------------------------- on_ready

\* The loop of on_ready over the keys of the mapping.
RECURSIVE StartAll(_, _, _, _)
StartAll(h, d, S, users) ==
    IF users = {} THEN S
    ELSE LET u == CHOOSE x \in users : \A y \in users : x <= y
         IN  StartAll(h, d, start_user_schedule(h, d, S.tasks, S.active_tasks, u),
                      users \ {u})

on_ready ==
    /\ Scheduled(StartAll(heap, data,
                          [tasks |-> tasks, active_tasks |-> active_tasks],
                          get_all_users(data)))
    /\ ready' = TRUE
    /\ NoLog
    /\ UNCHANGED <<now, data, disk, outbox, dash, edit, edits, halted, stub, file, panel>>
    /\ Heap(heap)

\* ----------------------------------------------------- dashboard_command

\* dashboard_command: the view is built with the closures of its buttons,
\* which hold the dict `config` and show Stop or Start by its flag now.  The
\* model follows the latest dashboard of each user.
dashboard_command(user_id) ==
    LET user_stats == get_user_stats(heap, data, logs, user_id) IN
    /\ ~user_stats.none
    /\ dash' = [dash EXCEPT ![user_id] =
                    [open |-> TRUE, config |-> user_stats.config,
                     enabled |-> heap[user_stats.config].enabled]]
    /\ NoLog
    /\ UNCHANGED <<now, ready, data, disk, tasks, active_tasks, outbox, edit, edits, halted, stub, file, panel>>
    /\ Heap(heap)

\* stop_callback of the Stop button.
stop_callback(user_id) ==
    LET config == dash[user_id].config
        h == SetEnabled(heap, config, FALSE)
        d == set_user_config(data, user_id, config)
    IN  /\ dash[user_id].open /\ dash[user_id].enabled
        /\ data' = d
        /\ disk' = save_data(h, d)
        /\ Scheduled(stop_user_schedule(tasks, active_tasks, user_id))
        /\ NoLog
        /\ UNCHANGED <<now, ready, outbox, dash, edit, edits, stub, file, panel>>
        /\ halted' = [halted EXCEPT ![user_id] = TRUE]
        /\ Heap(h)

\* start_callback of the Start button.
start_callback(user_id) ==
    LET config == dash[user_id].config
        h == SetEnabled(heap, config, TRUE)
        d == set_user_config(data, user_id, config)
    IN  /\ dash[user_id].open /\ ~dash[user_id].enabled
        /\ data' = d
        /\ disk' = save_data(h, d)
        /\ Scheduled(start_user_schedule(h, d, tasks, active_tasks, user_id))
        /\ NoLog
        /\ UNCHANGED <<now, ready, outbox, dash, edit, edits, stub, file, panel>>
        /\ halted' = [halted EXCEPT ![user_id] = FALSE]
        /\ Heap(h)

\* yes_callback of the Delete button's confirmation; the dashboard message
\* is deleted with it.
yes_callback(user_id) ==
    LET d == delete_user_config(data, user_id) IN
    /\ dash[user_id].open
    /\ Scheduled(stop_user_schedule(tasks, active_tasks, user_id))
    /\ data' = d
    /\ disk' = IF delete_returns(data, user_id) THEN save_data(heap, d) ELSE disk
    /\ dash' = [dash EXCEPT ![user_id] = NoDash]
    /\ NoLog
    /\ UNCHANGED <<now, ready, outbox, edit, edits, halted, stub, file, panel>>
    /\ Heap(heap)

\* -------------------------------------------------------- edit_command

\* What the users send as the new value: a message (choice 1), an interval
\* (choice 2), a channel id (choice 3).  wait_for's check lets only
\* isdigit() text through for choices 2 and 3.
EditReplies ==
    { [choice |-> 1, content |-> <<"y", "o">>],
      [choice |-> 2, content |-> <<"0">>],
      [choice |-> 2, content |-> <<"x">>],
      [choice |-> 3, content |-> <<"8">>],
      [choice |-> 3, content |-> <<"^2">>],
      [choice |-> 3, content |-> <<"x">>] }

\* edit_command up to its first wait_for: the stats, and with them the dict
\* of the user's config, are read here.  The handler then sends its menu and
\* waits for two messages of the user: a task created before the handler
\* began has taken its first step (the next turn of the event loop) long
\* before the second of them arrives.
edit_command(user_id) ==
    LET user_stats == get_user_stats(heap, data, logs, user_id) IN
    /\ edit[user_id].pc = "idle"
    /\ \A t \in 1..Len(tasks) : tasks[t].pc # "created"
    /\ ~user_stats.none
    /\ edits < MaxEdits
    /\ edits' = edits + 1
    /\ edit' = [edit EXCEPT ![user_id] = [pc |-> "wait", config |-> user_stats.config]]
    /\ NoLog
    /\ UNCHANGED <<now, ready, data, disk, tasks, active_tasks, outbox, dash, halted, stub, file, panel>>
    /\ Heap(heap)

\* edit_command from the choice to the "updated" message: the new value is
\* written into the dict, and nothing is saved yet.  int() of a digit that is
\* not decimal raises ValueError, which on_command_error logs.
edit_reply(user_id, reply) ==
    LET config == edit[user_id].config
        content == reply.content
    IN  /\ edit[user_id].pc = "wait"
        /\ reply.choice \in {2, 3} => isdigit(content)
        /\ UNCHANGED <<now, ready, data, disk, tasks, active_tasks, outbox, dash, edits, halted, stub, file, panel>>
        /\ IF reply.choice = 2 /\ IntRaises(content)
           THEN /\ Len(logs.errors) < Bound(MaxLogged, MaxStubLogged)
                /\ Logged(log_error(logs, now, CommandErrorText \o ValueError(content), user_id),
                          <<>>,
                          <<ErrorEntry(now, CommandErrorText \o ValueError(content), user_id)>>)
                /\ edit' = [edit EXCEPT ![user_id] = NoEdit]
                /\ Heap(heap)
           ELSE /\ edit' = [edit EXCEPT ![user_id].pc = "ack"]
                /\ NoLog
                /\ Heap(CASE reply.choice = 1 -> [heap EXCEPT ![config].message = content]
                           [] reply.choice = 2 ->
                                [heap EXCEPT ![config].interval = int(content)]
                           [] OTHER -> [heap EXCEPT ![config].channel_id = content])

\* edit_command from "Save changes and restart schedule" on.
edit_save(user_id) ==
    LET config == edit[user_id].config
        d == set_user_config(data, user_id, config)
        stopped == stop_user_schedule(tasks, active_tasks, user_id)
    IN  /\ edit[user_id].pc = "ack"
        /\ data' = d
        /\ disk' = save_data(heap, d)
        /\ Scheduled(start_user_schedule(heap, d, stopped.tasks,
                                         stopped.active_tasks, user_id))
        /\ edit' = [edit EXCEPT ![user_id] = NoEdit]
        /\ NoLog
        /\ UNCHANGED <<now, ready, outbox, dash, edits, halted, stub, file, panel>>
        /\ Heap(heap)

\* ---------------------------------------------------- run_user_schedule

\* An error text that quotes the user's token.
ScheduleError_leaky(user_id, text) ==
    ScheduleErrorText \o str(user_id) \o ColonText \o text
        \o heap[data[user_id]].token

ScheduleError(user_id, text) == ScheduleErrorText \o str(user_id) \o ColonText \o text

ChannelNotFound(channel_id) == ChannelText \o channel_id \o NotFoundText

\* The loops log within the bound on the logs.
LogRoom ==
    LET room == Bound(MaxLogged, MaxStubLogged) IN
    Len(logs.messages) < room /\ Len(logs.errors) < room

\* A first step that skips the first sleep.
run_start_eager(t) ==
    LET user_id == tasks[t].user
        config == get_user_config(data, user_id)
    IN  /\ tasks[t].pc = "created"
        /\ tasks' = [tasks EXCEPT ![t] =
                IF IsEmpty(config) THEN Finished(user_id, "done")
                ELSE [user |-> user_id, pc |-> "sleep",
                      interval |-> heap[config].interval,
                      channel_id |-> heap[config].channel_id,
                      message |-> heap[config].message,
                      wake |-> now, cfg |-> NoObj]]
        /\ NoLog
        /\ UNCHANGED <<now, ready, data, disk, active_tasks, outbox, dash, edit, edits, halted, stub, file, panel>>
        /\ Heap(heap)

\* A first step whose sleep takes the interval for seconds (no `* 60`).
run_start_seconds(t) ==
    LET user_id == tasks[t].user
        config == get_user_config(data, user_id)
    IN  /\ tasks[t].pc = "created"
        /\ tasks' = [tasks EXCEPT ![t] =
                IF IsEmpty(config) THEN Finished(user_id, "done")
                ELSE [user |-> user_id, pc |-> "sleep",
                      interval |-> heap[config].interval,
                      channel_id |-> heap[config].channel_id,
                      message |-> heap[config].message,
                      wake |-> now + (heap[config].interval \div 60), cfg |-> NoObj]]
        /\ NoLog
        /\ UNCHANGED <<now, ready, data, disk, active_tasks, outbox, dash, edit, edits, halted, stub, file, panel>>
        /\ Heap(heap)

\* The first step of the coroutine: the config is read and interval,
\* channel_id and message are captured; the first sleep begins.
run_start(t) ==
    LET user_id == tasks[t].user
        config == get_user_config(data, user_id)
    IN  /\ tasks[t].pc = "created"
        /\ tasks' = [tasks EXCEPT ![t] =
                IF IsEmpty(config) THEN Finished(user_id, "done")
                ELSE [user |-> user_id, pc |-> "sleep",
                      interval |-> heap[config].interval,
                      channel_id |-> heap[config].channel_id,
                      message |-> heap[config].message,
                      wake |-> now + heap[config].interval, cfg |-> NoObj]]
        /\ NoLog
        /\ UNCHANGED <<now, ready, data, disk, active_tasks, outbox, dash, edit, edits, halted, stub, file, panel>>
        /\ Heap(heap)

\* A wake-up without the "Check if still enabled" of the loop.
run_wake_unchecked(t, found) ==
    LET user_id == tasks[t].user
        config == get_user_config(data, user_id)
        channel_id == tasks[t].channel_id
        message == tasks[t].message
    IN  /\ tasks[t].pc = "sleep" /\ tasks[t].wake <= now
        /\ UNCHANGED <<now, ready, data, disk, active_tasks, outbox, dash, edit,
                       edits, halted, stub, file, panel>>
        /\ IF IsEmpty(config)
           THEN /\ tasks' = [tasks EXCEPT ![t] = Finished(user_id, "done")]
                /\ NoLog
                /\ Heap(heap)
           ELSE IF found
           THEN /\ tasks' = [tasks EXCEPT ![t].pc = "send", ![t].cfg = config]
                /\ NoLog
                /\ Heap(heap)
           ELSE /\ LogRoom
                /\ Logged(log_error(log_message(logs, now, user_id, channel_id, message,
                                                "failed - channel not found"),
                                    now, ChannelNotFound(channel_id), user_id),
                          <<MessageEntry(now, user_id, channel_id, message,
                                         "failed - channel not found")>>,
                          <<ErrorEntry(now, ChannelNotFound(channel_id), user_id)>>)
                /\ tasks' = [tasks EXCEPT ![t].wake = now + tasks[t].interval]
                /\ Heap(heap)

\* The sleep is over: the enabled check, the channel lookup (found or not, as
\* the Messaging Client answers) and the call of channel.send.
run_wake(t, found) ==
    LET user_id == tasks[t].user
        config == get_user_config(data, user_id)
        channel_id == tasks[t].channel_id
        message == tasks[t].message
    IN  /\ tasks[t].pc = "sleep" /\ tasks[t].wake <= now
        /\ UNCHANGED <<now, ready, data, disk, active_tasks, outbox, dash, edit, edits, halted, stub, file, panel>>
        /\ IF IsEmpty(config) \/ ~heap[config].enabled
           THEN /\ tasks' = [tasks EXCEPT ![t] = Finished(user_id, "done")]
                /\ NoLog
                /\ Heap(heap)
           ELSE IF IntRaises(channel_id)
           THEN /\ LogRoom
                /\ Logged(log_error(logs, now, ScheduleError(user_id, ValueError(channel_id)), user_id),
                          <<>>,
                          <<ErrorEntry(now, ScheduleError(user_id, ValueError(channel_id)), user_id)>>)
                /\ tasks' = [tasks EXCEPT ![t].pc = "backoff",
                                          ![t].wake = now + RETRY_MINUTES]
                /\ Heap(heap)
           ELSE IF found
           THEN /\ tasks' = [tasks EXCEPT ![t].pc = "send", ![t].cfg = config]
                /\ NoLog
                /\ Heap(heap)
           ELSE /\ LogRoom
                /\ Logged(log_error(log_message(logs, now, user_id, channel_id, message,
                                                "failed - channel not found"),
                                    now, ChannelNotFound(channel_id), user_id),
                          <<MessageEntry(now, user_id, channel_id, message,
                                         "failed - channel not found")>>,
                          <<ErrorEntry(now, ChannelNotFound(channel_id), user_id)>>)
                /\ tasks' = [tasks EXCEPT ![t].wake = now + tasks[t].interval]
                /\ Heap(heap)

\* A completed send that counts in memory and does not rewrite the file.
run_sent_unsaved(t) ==
    LET user_id == tasks[t].user
        config == tasks[t].cfg
        channel_id == tasks[t].channel_id
        message == tasks[t].message
        h == [heap EXCEPT ![config].last_sent = now,
                          ![config].total_sent = @ + 1]
    IN  /\ tasks[t].pc = "send"
        /\ LogRoom
        /\ outbox' = Append(outbox, [user |-> user_id, channel_id |-> channel_id,
                                     message |-> message, time |-> now])
        /\ Logged(log_message(logs, now, user_id, channel_id, message, "sent"),
                  <<MessageEntry(now, user_id, channel_id, message, "sent")>>, <<>>)
        /\ tasks' = [tasks EXCEPT ![t].pc = "sleep", ![t].cfg = NoObj,
                                  ![t].wake = now + tasks[t].interval]
        /\ UNCHANGED <<now, ready, data, disk, active_tasks, dash, edit, edits,
                       halted, stub, file, panel>>
        /\ Heap(h)

\* channel.send returned: the config is updated and saved, the success is
\* logged, and the next sleep begins.
run_sent(t) ==
    LET user_id == tasks[t].user
        config == tasks[t].cfg
        channel_id == tasks[t].channel_id
        message == tasks[t].message
        h == [heap EXCEPT ![config].last_sent = now,
                          ![config].total_sent = @ + 1]
        d == set_user_config(data, user_id, config)
    IN  /\ tasks[t].pc = "send"
        /\ LogRoom
        /\ outbox' = Append(outbox, [user |-> user_id, channel_id |-> channel_id,
                                     message |-> message, time |-> now])
        /\ data' = d
        /\ disk' = save_data(h, d)
        /\ Logged(log_message(logs, now, user_id, channel_id, message, "sent"),
                  <<MessageEntry(now, user_id, channel_id, message, "sent")>>, <<>>)
        /\ tasks' = [tasks EXCEPT ![t].pc = "sleep", ![t].cfg = NoObj,
                                  ![t].wake = now + tasks[t].interval]
        /\ UNCHANGED <<now, ready, active_tasks, dash, edit, edits, halted, stub, file, panel>>
        /\ Heap(h)

\* An exception that ends the loop.
run_raise_fatal(t, text) ==
    LET user_id == tasks[t].user IN
    /\ tasks[t].pc = "send"
    /\ LogRoom
    /\ Logged(log_error(logs, now, ScheduleError(user_id, text), user_id),
              <<>>, <<ErrorEntry(now, ScheduleError(user_id, text), user_id)>>)
    /\ tasks' = [tasks EXCEPT ![t] = Finished(user_id, "done")]
    /\ UNCHANGED <<now, ready, data, disk, active_tasks, outbox, dash, edit, edits, halted, stub, file, panel>>
    /\ Heap(heap)

\* channel.send raised (a rate limit, a transport error): the except clause
\* logs the error and sleeps 60 seconds.
run_raise(t, text) ==
    LET user_id == tasks[t].user IN
    /\ tasks[t].pc = "send"
    /\ LogRoom
    /\ Logged(log_error(logs, now, ScheduleError(user_id, text), user_id),
              <<>>, <<ErrorEntry(now, ScheduleError(user_id, text), user_id)>>)
    /\ tasks' = [tasks EXCEPT ![t].pc = "backoff", ![t].cfg = NoObj,
                              ![t].wake = now + RETRY_MINUTES]
    /\ UNCHANGED <<now, ready, data, disk, active_tasks, outbox, dash, edit, edits, halted, stub, file, panel>>
    /\ Heap(heap)

\* The 60 seconds are over: `while True` goes round to the sleep.
run_retry(t) ==
    /\ tasks[t].pc = "backoff" /\ tasks[t].wake <= now
    /\ tasks' = [tasks EXCEPT ![t].pc = "sleep",
                              ![t].wake = now + tasks[t].interval]
    /\ NoLog
    /\ UNCHANGED <<now, ready, data, disk, active_tasks, outbox, dash, edit, edits, halted, stub, file, panel>>
    /\ Heap(heap)

\* ---------------------------------------------------------------- time

\* Nothing is ready to run and no network call is in flight.
Idle ==
    /\ \A t \in 1..Len(tasks) :
        /\ tasks[t].pc \notin {"created", "send"}
        /\ tasks[t].pc \in {"sleep", "backoff"} => tasks[t].wake > now
    /\ \A u \in Users : edit[u].pc # "ack"

\* A minute passes; an edit_command still waiting for its reply times out
\* (asyncio.TimeoutError: nothing is changed).
Tick ==
    /\ now < Bound(MaxTime, MaxStubTime)
    /\ Idle
    /\ now' = now + 1
    /\ edit' = [u \in Users |-> NoEdit]
    /\ NoLog
    /\ UNCHANGED <<ready, data, disk, tasks, active_tasks, outbox, dash, edits, halted, stub, file, panel>>
    /\ Heap(heap)

\* ------------------------------------------------------- specifications

ExceptionTexts == {RateLimitText}

Commands ==
    \/ \E u \in Actors : \E lines \in SetupReplies : setup_command(u, lines)
    \/ \E u \in Users : stop_command(u)
    \/ \E u \in Users : start_command(u)
    \/ \E u \in Actors : dashboard_command(u)
    \/ \E u \in Actors : stop_callback(u)
    \/ \E u \in Actors : start_callback(u)
    \/ \E u \in Actors : yes_callback(u)
    \/ \E u \in Actors : edit_command(u)
    \/ \E u \in Actors : \E reply \in EditReplies : edit_reply(u, reply)
    \/ \E u \in Actors : edit_save(u)

Loops ==
    \/ \E t \in 1..Len(tasks) : run_start(t)
    \/ \E t \in 1..Len(tasks) : \E found \in BOOLEAN : run_wake(t, found)
    \/ \E t \in 1..Len(tasks) : run_sent(t)
    \/ \E t \in 1..Len(tasks) : \E text \in ExceptionTexts : run_raise(t, text)
    \/ \E t \in 1..Len(tasks) : run_retry(t)

Next == on_ready \/ Commands \/ Loops \/ Tick

Spec == Init /\ [][Next]_vars

\* The bot with no config on file and a Messaging Client that always finds
\* the channel and always delivers: the users set their schedules up and the
\* loops run.
InitStub ==
    /\ now = 0
    /\ ready = FALSE
    /\ heap = [u \in Users |-> NoConfig]
    /\ data = [u \in Users |-> NoObj]
    /\ disk = FileOf(heap, data)
    /\ tasks = <<>>
    /\ active_tasks = [u \in Users |-> NoTask]
    /\ logs = [messages |-> <<>>, errors |-> <<>>]
    /\ logfile = logs
    /\ outbox = <<>>
    /\ dash = [u \in Users |-> NoDash]
    /\ edit = [u \in Users |-> NoEdit]
    /\ edits = 0
    /\ halted = [u \in Users |-> FALSE]
    /\ stub = TRUE
    /\ file = SoundFile
    /\ panel = NoPanel
    /\ appended = logs

NextStub ==
    \/ \E u \in Actors : \E lines \in SetupReplies : setup_command(u, lines)
    \/ \E t \in 1..Len(tasks) : run_start(t)
    \/ \E t \in 1..Len(tasks) : run_wake(t, TRUE)
    \/ \E t \in 1..Len(tasks) : run_sent(t)
    \/ Tick

SpecStub == InitStub /\ [][NextStub]_vars

\* The Log Store on its own: the logs as a previous run left them in
\* LOG_FILE (empty, or Prefilled entries short of the maximum), and calls of
\* log_message and log_error, each at a later reading of the clock.
PriorMessages(n) ==
    [i \in 1..n |-> MessageEntry(i, 1, <<"7">>, <<"h", "i">>, "sent")]

PriorErrors(n) == [i \in 1..n |-> ErrorEntry(i, ChannelNotFound(<<"7">>), 1)]

InitLog ==
    /\ now = MAX_MESSAGE_LOGS
    /\ ready = FALSE
    /\ heap = [u \in Users |-> NoConfig]
    /\ data = [u \in Users |-> NoObj]
    /\ disk = FileOf(heap, data)
    /\ tasks = <<>>
    /\ active_tasks = [u \in Users |-> NoTask]
    /\ \E m \in {0, MAX_MESSAGE_LOGS - Prefilled} :
       \E e \in {0, MAX_ERROR_LOGS - Prefilled} :
            logs = [messages |-> PriorMessages(m), errors |-> PriorErrors(e)]
    /\ logfile = logs
    /\ outbox = <<>>
    /\ dash = [u \in Users |-> NoDash]
    /\ edit = [u \in Users |-> NoEdit]
    /\ edits = 0
    /\ halted = [u \in Users |-> FALSE]
    /\ stub = FALSE
    /\ file = SoundFile
    /\ panel = NoPanel
    /\ appended = logs

LogFrame ==
    UNCHANGED <<ready, heap, data, disk, tasks, active_tasks, outbox, dash, edit,
                edits, halted, stub, file, panel>>

log_message_call(user_id, status) ==
    /\ Len(appended.messages) < MaxLogCalls
            + (IF Len(appended.messages) >= MAX_MESSAGE_LOGS - Prefilled
               THEN MAX_MESSAGE_LOGS - Prefilled ELSE 0)
    /\ now' = now + 1
    /\ Logged(log_message(logs, now, user_id, <<"7">>, <<"h", "i">>, status),
              <<MessageEntry(now, user_id, <<"7">>, <<"h", "i">>, status)>>, <<>>)
    /\ LogFrame

log_error_call(user_id) ==
    /\ Len(appended.errors) < MaxLogCalls
            + (IF Len(appended.errors) >= MAX_ERROR_LOGS - Prefilled
               THEN MAX_ERROR_LOGS - Prefilled ELSE 0)
    /\ now' = now + 1
    /\ Logged(log_error(logs, now, ChannelNotFound(<<"7">>), user_id),
              <<>>, <<ErrorEntry(now, ChannelNotFound(<<"7">>), user_id)>>)
    /\ LogFrame

NextLog ==
    \/ \E u \in Users : log_message_call(u, "sent")
    \/ log_error_call(0)

SpecLog == InitLog /\ [][NextLog]_vars

\* The setup wizard, edit_command and the delivery loops of the users that
\* run them, with every reply of WizardReplies and a client that may fail.
NextWizard ==
    \/ on_ready
    \/ \E u \in Actors : \E lines \in WizardReplies : setup_command(u, lines)
    \/ \E u \in Actors : edit_command(u)
    \/ \E u \in Actors : \E reply \in EditReplies : edit_reply(u, reply)
    \/ \E u \in Actors : edit_save(u)
    \/ Loops
    \/ Tick

SpecWizard == Init /\ [][NextWizard]_vars

\* An edit_command conversation beside a running loop.  The conversation
\* takes two messages of the user, so a loop that is due has woken before
\* the handler gets its reply; wait_for gives the user 60 and then 120
\* seconds, so a minute can pass while the handler waits.
Settled ==
    \A t \in 1..Len(tasks) :
        tasks[t].pc \in {"sleep", "backoff"} => tasks[t].wake > now

\* A minute passes and the waiting edit_command has not timed out yet.
Tock ==
    /\ now < Bound(MaxTime, MaxStubTime)
    /\ Idle
    /\ now' = now + 1
    /\ NoLog
    /\ UNCHANGED <<ready, data, disk, tasks, active_tasks, outbox, dash, edit,
                   edits, halted, stub, file, panel>>
    /\ Heap(heap)

NextEdit ==
    \/ on_ready
    \/ \E u \in Actors : \E lines \in SetupReplies : setup_command(u, lines)
    \/ \E u \in Actors : Settled /\ edit_command(u)
    \/ \E u \in Actors : \E reply \in EditReplies : edit_reply(u, reply)
    \/ \E u \in Actors : edit_save(u)
    \/ Loops
    \/ Tock
    \/ Tick

SpecEdit == Init /\ [][NextEdit]_vars

\* The scheduler and its Config Store on their own, called as the Command
\* Surface calls them but one call at a time: a record can be disabled or
\* deleted in the store while the user's loop sleeps, which is the case the
\* loop's check after its sleep is written for.
CoreFrame == UNCHANGED <<now, ready, outbox, dash, edit, edits, halted, stub, file, panel>>

\* scheduler.setup_user_schedule(user_id, "K", 7, 1, "hi")
call_setup(user_id) ==
    /\ CoreFrame
    /\ NoLog
    /\ setup_user_schedule(user_id, <<"K">>, 7, MIN_INTERVAL, <<"h", "i">>)

\* scheduler.start_user_schedule(user_id)
call_start(user_id) ==
    /\ Scheduled(start_user_schedule(heap, data, tasks, active_tasks, user_id))
    /\ NoLog
    /\ UNCHANGED <<data, disk>>
    /\ CoreFrame
    /\ Heap(heap)

\* scheduler.stop_user_schedule(user_id)
call_stop(user_id) ==
    /\ active_tasks[user_id] # NoTask
    /\ Scheduled(stop_user_schedule(tasks, active_tasks, user_id))
    /\ NoLog
    /\ UNCHANGED <<data, disk>>
    /\ CoreFrame
    /\ Heap(heap)

\* config = user_manager.get_user_config(user_id); config["enabled"] = value;
\* user_manager.set_user_config(user_id, config)
call_set_enabled(user_id, value) ==
    LET config == get_user_config(data, user_id)
        h == SetEnabled(heap, config, value)
        d == set_user_config(data, user_id, config)
    IN  /\ ~IsEmpty(config)
        /\ heap[config].enabled # value
        /\ data' = d
        /\ disk' = save_data(h, d)
        /\ NoLog
        /\ UNCHANGED <<tasks, active_tasks>>
        /\ CoreFrame
        /\ Heap(h)

\* user_manager.delete_user_config(user_id)
call_delete(user_id) ==
    LET d == delete_user_config(data, user_id) IN
    /\ delete_returns(data, user_id)
    /\ data' = d
    /\ disk' = save_data(heap, d)
    /\ NoLog
    /\ UNCHANGED <<tasks, active_tasks>>
    /\ CoreFrame
    /\ Heap(heap)

NextCore ==
    \/ \E u \in Actors : call_setup(u)
    \/ \E u \in Actors : call_start(u)
    \/ \E u \in Actors : call_stop(u)
    \/ \E u \in Actors : \E value \in BOOLEAN : call_set_enabled(u, value)
    \/ \E u \in Actors : call_delete(u)
    \/ \E t \in 1..Len(tasks) : run_start(t)
    \/ \E t \in 1..Len(tasks) : \E found \in BOOLEAN : run_wake(t, found)
    \/ \E t \in 1..Len(tasks) : run_sent(t)
    \/ \E t \in 1..Len(tasks) : \E text \in ExceptionTexts : run_raise(t, text)
    \/ Tick

SpecCore == Init /\ [][NextCore]_vars

\* The schedules over several intervals: a Messaging Client that delivers or
\* finds no channel, and the handlers that (re)start a loop.
NextTimer ==
    \/ on_ready
    \/ \E u \in Actors : \E lines \in ValidSetupReplies : setup_command(u, lines)
    \/ \E u \in Actors : start_command(u)
    \/ \E u \in Actors : edit_command(u)
    \/ \E u \in Actors : \E reply \in EditReplies : edit_reply(u, reply)
    \/ \E u \in Actors : edit_save(u)
    \/ \E t \in 1..Len(tasks) : run_start(t)
    \/ \E t \in 1..Len(tasks) : \E found \in BOOLEAN : run_wake(t, found)
    \/ \E t \in 1..Len(tasks) : run_sent(t)
    \/ Tick

SpecTimer == InitStub /\ [][NextTimer]_vars

\* ------------------------------------------------------- admin_command

\* ADMIN_USER_IDS of the environment.
ADMIN_USER_IDS == Actors

\* What the handlers are given: a commands.Context has `author`; a
\* discord.Interaction has `user` and no `author`.
Context(user_id) == [author |-> user_id]
Interaction(user_id) == [user |-> user_id]

\* is_admin(ctx): ctx.author.id in ADMIN_USER_IDS.  Reading an attribute the
\* object does not have raises AttributeError.
is_admin(ctx) ==
    IF "author" \in DOMAIN ctx
    THEN [raised |-> FALSE, value |-> ctx.author \in ADMIN_USER_IDS]
    ELSE [raised |-> TRUE, value |-> FALSE]

AdminFrame ==
    /\ NoLog
    /\ UNCHANGED <<now, ready, data, disk, tasks, active_tasks, outbox, dash, edit,
                   edits, halted, stub, file>>
    /\ Heap(heap)

\* admin_command, behind @commands.check(is_admin): the panel is shown.
admin_command(user_id) ==
    /\ is_admin(Context(user_id)).value
    /\ panel' = [open |-> TRUE, confirm |-> FALSE, failed |-> FALSE]
    /\ AdminFrame

\* stop_callback of the Stop All button: is_admin(interaction), then the
\* confirmation is shown.  A callback that raises ends there, and the client
\* shows that the interaction failed.
admin_stop_callback(user_id) ==
    LET allowed == is_admin(Interaction(user_id)) IN
    /\ panel.open
    /\ panel' = IF allowed.raised THEN [panel EXCEPT !.failed = TRUE]
                ELSE IF allowed.value THEN [panel EXCEPT !.confirm = TRUE]
                ELSE panel
    /\ AdminFrame

\* The loop of yes_callback over the mapping: stop_user_schedule for each.
RECURSIVE StopAll(_, _)
StopAll(S, users) ==
    IF users = {} THEN S
    ELSE LET u == CHOOSE x \in users : \A y \in users : x <= y
         IN  StopAll(stop_user_schedule(S.tasks, S.active_tasks, u), users \ {u})

\* yes_callback of the Stop All confirmation: every config is disabled and
\* saved, every schedule stopped.
admin_yes_callback ==
    LET all_users == get_all_users(data)
        h == [o \in 1..Len(heap) |->
                IF \E u \in all_users : data[u] = o
                THEN [heap[o] EXCEPT !.enabled = FALSE] ELSE heap[o]]
    IN  /\ panel.confirm
        /\ panel' = [panel EXCEPT !.confirm = FALSE]
        /\ disk' = IF all_users = {} THEN disk ELSE save_data(h, data)
        /\ Scheduled(StopAll([tasks |-> tasks, active_tasks |-> active_tasks],
                              all_users))
        /\ halted' = [u \in Users |-> halted[u] \/ u \in all_users]
        /\ NoLog
        /\ UNCHANGED <<now, ready, data, outbox, dash, edit, edits, stub, file>>
        /\ Heap(h)

\* The admin panel beside the schedules.
NextAdmin ==
    \/ on_ready
    \/ \E u \in Actors : \E lines \in ValidSetupReplies : setup_command(u, lines)
    \/ \E u \in Users : admin_command(u)
    \/ \E u \in Users : admin_stop_callback(u)
    \/ \E t \in 1..Len(tasks) : run_start(t)
    \/ \E t \in 1..Len(tasks) : \E found \in BOOLEAN : run_wake(t, found)
    \/ \E t \in 1..Len(tasks) : run_sent(t)
    \/ \E t \in 1..Len(tasks) : \E text \in ExceptionTexts : run_raise(t, text)
    \/ Tick

SpecAdmin == Init /\ [][NextAdmin]_vars

\* The Config Store on its own, over a file system that fails: the process
\* restarts (ConfigManager.__init__ calls load_data), records are set and
\* deleted, and the file system changes what it makes of the file.
FileFrame ==
    UNCHANGED <<now, ready, tasks, active_tasks, logs, logfile, outbox, dash,
                edit, edits, halted, stub, panel, appended>>

InitFile ==
    /\ now = 0
    /\ ready = FALSE
    /\ \E present \in SUBSET Users :
        /\ heap \in [Users -> PersistedConfigs \cup {NoConfig}]
        /\ \A u \in Users : (heap[u] = NoConfig) <=> (u \notin present)
        /\ data = [u \in Users |-> IF u \in present THEN u ELSE NoObj]
    /\ disk = FileOf(heap, data)
    /\ tasks = <<>>
    /\ active_tasks = [u \in Users |-> NoTask]
    /\ logs = [messages |-> <<>>, errors |-> <<>>]
    /\ logfile = logs
    /\ outbox = <<>>
    /\ dash = [u \in Users |-> NoDash]
    /\ edit = [u \in Users |-> NoEdit]
    /\ edits = 0
    /\ halted = [u \in Users |-> FALSE]
    /\ stub = FALSE
    /\ file = SoundFile
    /\ panel = NoPanel
    /\ appended = logs

\* The process starts again: self.data = self.load_data().
restart ==
    LET loaded == load_data(file, disk) IN
    /\ ~loaded.raised
    /\ heap' = [u \in Users |-> loaded.value[u].config]
    /\ data' = [u \in Users |-> IF loaded.value[u].present THEN u ELSE NoObj]
    /\ UNCHANGED <<disk, file>>
    /\ FileFrame

\* set_user_config(user_id, config) with a dict read from the file format.
store(user_id, config) ==
    LET h == [heap EXCEPT ![user_id] = config]
        d == set_user_config(data, user_id, user_id)
        written == write_data(file, disk, h, d)
    IN  /\ ~written.raised
        /\ heap' = h
        /\ data' = d
        /\ disk' = written.onfile
        /\ file' = written.file
        /\ FileFrame

\* delete_user_config(user_id)
remove(user_id) ==
    LET h == [heap EXCEPT ![user_id] = NoConfig]
        d == delete_user_config(data, user_id)
        written == write_data(file, disk, h, d)
    IN  /\ delete_returns(data, user_id)
        /\ ~written.raised
        /\ heap' = h
        /\ data' = d
        /\ disk' = written.onfile
        /\ file' = written.file
        /\ FileFrame

\* The file system: the file is lost, locked or garbled, or writes start
\* or stop failing.
damage(state, write) ==
    /\ state = "ok" => file.state = "ok"
    /\ file' = [state |-> state, write |-> write]
    /\ file' # file
    /\ UNCHANGED <<heap, data, disk>>
    /\ FileFrame

NextFile ==
    \/ restart
    \/ \E u \in Users : \E config \in PersistedConfigs : store(u, config)
    \/ \E u \in Users : remove(u)
    \/ \E state \in FileStates : \E write \in WriteModes : damage(state, write)

SpecFile == InitFile /\ [][NextFile]_vars

\* The delivery loops with long texts: configs whose message is shorter
\* than, as long as, or longer than what a delivery entry keeps, and
\* exceptions whose text makes the error entry shorter or longer than what
\* an error entry keeps.
Text(n) == [i \in 1..n |-> AsciiDigits[(i % 10) + 1]]

LongConfigs ==
    {NewConfig(<<"K">>, 7, 1, Text(n), 0) :
        n \in {2, MESSAGE_BUDGET, MESSAGE_BUDGET + 1}}

LongExceptionTexts == {Text(2), Text(ERROR_BUDGET)}

InitLong ==
    /\ now = 0
    /\ ready = FALSE
    /\ \E present \in SUBSET Actors :
        /\ heap \in [Users -> LongConfigs \cup {NoConfig}]
        /\ \A u \in Users : (heap[u] = NoConfig) <=> (u \notin present)
        /\ data = [u \in Users |-> IF u \in present THEN u ELSE NoObj]
    /\ disk = FileOf(heap, data)
    /\ tasks = <<>>
    /\ active_tasks = [u \in Users |-> NoTask]
    /\ logs = [messages |-> <<>>, errors |-> <<>>]
    /\ logfile = logs
    /\ outbox = <<>>
    /\ dash = [u \in Users |-> NoDash]
    /\ edit = [u \in Users |-> NoEdit]
    /\ edits = 0
    /\ halted = [u \in Users |-> FALSE]
    /\ stub = TRUE
    /\ file = SoundFile
    /\ panel = NoPanel
    /\ appended = logs

NextLong ==
    \/ on_ready
    \/ \E t \in 1..Len(tasks) : run_start(t)
    \/ \E t \in 1..Len(tasks) : \E found \in BOOLEAN : run_wake(t, found)
    \/ \E t \in 1..Len(tasks) : run_sent(t)
    \/ \E t \in 1..Len(tasks) : \E text \in LongExceptionTexts : run_raise(t, text)
    \/ \E t \in 1..Len(tasks) : run_retry(t)
    \/ Tick

SpecLong == InitLong /\ [][NextLong]_vars

\* ---------------------------------------------------------------- claims

\* The user's config as the file holds it is there and enabled.
EnabledOnFile(u) == disk[u].present /\ disk[u].config.enabled

\* The tasks ever created for the user.
LoopsOf(u) == {t \in 1..Len(tasks) : tasks[t].user = u}

\* C1: in every reachable state every user has at most one live delivery
\* loop, whatever sequence of setup, start, edit and on_ready led there.
C1_AtMostOneLiveLoop == \A u \in Users : Cardinality(LiveLoops(u)) <= 1

\* A loop of the user was superseded, and exactly one is live.
C1_Witness ==
    \E u \in Users : Cardinality(LoopsOf(u)) >= 2 /\ Cardinality(LiveLoops(u)) = 1

\* C2: once on_ready has run and while no command handler is in the middle
\* of its run, a user has a live loop exactly when the persisted config of
\* the user exists and is enabled, and then has exactly one.
C2_LoopIffEnabled ==
    (ready /\ \A v \in Users : edit[v].pc = "idle") =>
        \A u \in Users :
            /\ EnabledOnFile(u) <=> LiveLoops(u) # {}
            /\ EnabledOnFile(u) => Cardinality(LiveLoops(u)) = 1

\* After on_ready, one user runs a loop and another, disabled by a stop, has
\* a config and no loop.
C2_Witness ==
    /\ ready
    /\ \A v \in Users : edit[v].pc = "idle"
    /\ \E u \in Users : EnabledOnFile(u) /\ Cardinality(LiveLoops(u)) = 1
    /\ \E u \in Users :
        disk[u].present /\ ~disk[u].config.enabled /\ halted[u] /\ LoopsOf(u) # {}

\* C3: after a stop (stop command or Stop button) and until an explicit
\* start or setup, the user's loop is terminated and no delivery is
\* attempted for the user.
C3_NoLoopAfterStop ==
    \A u \in Users : halted[u] => LiveLoops(u) = {}

\* C3: once a user's schedule has been disabled, nothing is delivered for that
\* user until an explicit start or a new setup, and the loop has terminated.
\* C3_NoLoopAfterStop above states it; edit_command breaks it.
C3_Reached ==
    \E u \in Users : halted[u] /\ LiveLoops(u) # {} /\ ~IsEmpty(data[u])
        /\ heap[data[u]].enabled

\* C4: with a client whose every step succeeds, a loop started at T0 with
\* interval I has, whenever it rests between two deliveries, sent exactly one
\* message per elapsed interval, each to the configured channel with the
\* configured text, at T0 + I, T0 + 2I, ..., and total_sent counts them.
Resting(u) ==
    /\ active_tasks[u] # NoTask
    /\ tasks[active_tasks[u]].pc = "sleep"
    /\ tasks[active_tasks[u]].wake > now

SentSince(u, ts) == SelectSeq(outbox, LAMBDA e : e.user = u /\ e.time > ts)

C4_OneSendPerInterval ==
    \A u \in Users :
        (~IsEmpty(data[u]) /\ Resting(u)) =>
            LET c == heap[data[u]]
                k == (now - c.created_at) \div c.interval
                sends == SentSince(u, c.created_at)
            IN  /\ c.total_sent = k
                /\ Len(sends) = k
                /\ \A j \in 1..k :
                        /\ sends[j].time = c.created_at + j * c.interval
                        /\ sends[j].channel_id = c.channel_id
                        /\ sends[j].message = c.message

C4_Witness ==
    \E u \in Users :
        /\ ~IsEmpty(data[u]) /\ Resting(u)
        /\ heap[data[u]].interval = 2
        /\ heap[data[u]].total_sent = 2
        /\ Len(SentSince(u, heap[data[u]].created_at)) = 2

\* C5: on_ready launches a delivery loop for every user whose persisted
\* configuration is enabled, and none for a user whose configuration is
\* disabled or absent.
C5_OnReadyResumesEnabled ==
    [][on_ready =>
        \A u \in Users :
            IF EnabledOnFile(u)
            THEN /\ Cardinality(LiveIn(tasks', u)) = 1
                 /\ active_tasks'[u] \in LiveIn(tasks', u)
                 /\ active_tasks'[u] > Len(tasks)
                 /\ tasks'[active_tasks'[u]].pc = "created"
            ELSE /\ LiveIn(tasks', u) = {}
                 /\ \A t \in Len(tasks) + 1..Len(tasks') : tasks'[t].user # u
                 /\ active_tasks'[u] = active_tasks[u]]_vars

C5_Witness ==
    /\ ready
    /\ \E u, v \in Users :
        /\ EnabledOnFile(u) /\ LiveLoops(u) # {}
        /\ tasks[active_tasks[u]].pc = "created"
        /\ disk[v].present /\ ~disk[v].config.enabled /\ LoopsOf(v) = {}

\* C6: every persisted interval is at least one minute.
C6_IntervalAtLeastOne ==
    \A u \in Users : disk[u].present => disk[u].config.interval >= MIN_INTERVAL

C6_Reached ==
    \E u \in Users : disk[u].present /\ disk[u].config.interval = 0
        /\ disk[u].config.enabled /\ LiveLoops(u) # {}

\* C7: for every valid input, setup_user_schedule followed at once by
\* get_user_stats for the same user returns a config with the supplied
\* channel_id (as str() writes the integer it was given), interval and
\* message, enabled, with total_sent 0 and last_sent None.
C7_SetupThenStats ==
    [][\A u \in Users : \A lines \in ValidSetupReplies :
        (data'[u] # data[u] /\ setup_command(u, lines)) =>
            LET f == SetupFields(lines)
                user_stats == get_user_stats(heap', data', logs', u)
                config == heap'[user_stats.config]
            IN  /\ ~user_stats.none
                /\ config.channel_id = str(int(f.channel_id))
                /\ int(config.channel_id) = int(f.channel_id)
                /\ config.interval = int(f.interval)
                /\ config.message = f.message
                /\ config.token = f.token
                /\ config.enabled
                /\ user_stats.stats.total_sent = 0
                /\ user_stats.stats.last_sent = None
                /\ disk'[u] = [present |-> TRUE, config |-> config]]_vars

C7_Witness ==
    \E u \in Users :
        LET user_stats == get_user_stats(heap, data, logs, u) IN
        /\ ~user_stats.none
        /\ heap[user_stats.config].channel_id = <<"8">>
        /\ heap[user_stats.config].interval = 2
        /\ heap[user_stats.config].message = <<"y", "o">>
        /\ heap[user_stats.config].enabled
        /\ user_stats.stats.total_sent = 0
        /\ user_stats.stats.last_sent = None

\* C8: after any sequence of log_message and log_error calls the delivery
\* log holds at most 1000 entries and the error log at most 500, and each is
\* the most recent min(n, bound) of the n entries appended, in their order.
MostRecent(log, all, bound) ==
    LET n == Len(all)
        m == IF n < bound THEN n ELSE bound
    IN  /\ Len(log) = m
        /\ \A i \in 1..m : log[i] = all[n - m + i]

C8_LogsBounded ==
    /\ Len(logs.messages) <= MAX_MESSAGE_LOGS
    /\ Len(logs.errors) <= MAX_ERROR_LOGS
    /\ MostRecent(logs.messages, appended.messages, MAX_MESSAGE_LOGS)
    /\ MostRecent(logs.errors, appended.errors, MAX_ERROR_LOGS)
    /\ logfile = logs

C8_Witness ==
    /\ Len(appended.messages) > MAX_MESSAGE_LOGS
    /\ Len(logs.messages) = MAX_MESSAGE_LOGS
    /\ Len(appended.errors) > MAX_ERROR_LOGS
    /\ Len(logs.errors) = MAX_ERROR_LOGS

\* C9: when a cycle finds no channel, one delivery entry with the status
\* "failed - channel not found" and one error entry are appended, total_sent
\* and last_sent stay as they are, nothing is sent, and the loop stays live
\* and sleeps its interval again.
Cycling(t) ==
    LET config == get_user_config(data, tasks[t].user) IN
    ~IsEmpty(config) /\ heap[config].enabled /\ ~IntRaises(tasks[t].channel_id)

Sums(h, d, u) ==
    IF IsEmpty(d[u]) THEN <<None, None>> ELSE <<h[d[u]].total_sent, h[d[u]].last_sent>>

C9_ChannelNotFound ==
    [][\A t \in 1..Len(tasks) :
        (Cycling(t) /\ run_wake(t, FALSE)) =>
            LET u == tasks[t].user
                m == Len(logs'.messages)
                e == Len(logs'.errors)
            IN  /\ m = Len(logs.messages) + 1
                /\ SubSeq(logs'.messages, 1, m - 1) = logs.messages
                /\ logs'.messages[m].status = "failed - channel not found"
                /\ logs'.messages[m].user_id = str(u)
                /\ logs'.messages[m].channel_id = tasks[t].channel_id
                /\ e = Len(logs.errors) + 1
                /\ SubSeq(logs'.errors, 1, e - 1) = logs.errors
                /\ logs'.errors[e].error = ChannelNotFound(tasks[t].channel_id)
                /\ logs'.errors[e].user_id = str(u)
                /\ Sums(heap', data', u) = Sums(heap, data, u)
                /\ disk' = disk
                /\ outbox' = outbox
                /\ IsLive(tasks'[t])
                /\ tasks'[t].pc = "sleep"
                /\ tasks'[t].wake = now + tasks[t].interval]_vars

C9_Witness ==
    \E t \in 1..Len(tasks) :
        /\ tasks[t].pc = "sleep" /\ tasks[t].wake > now
        /\ logs.messages # <<>> /\ logs.errors # <<>>
        /\ logs.messages[Len(logs.messages)].status = "failed - channel not found"
        /\ logs.messages[Len(logs.messages)].user_id = str(tasks[t].user)
        /\ logs.errors[Len(logs.errors)].error = ChannelNotFound(tasks[t].channel_id)
        /\ Sums(heap, data, tasks[t].user) = <<0, None>>
        /\ outbox = <<>>

\* C10: when a step of a cycle raises an exception (a rate limit among
\* them), the loop records one error entry, leaves total_sent and last_sent
\* as they are, waits 60 seconds and goes on cycling; a loop ends only by
\* cancellation or on finding its config disabled or absent.
Raises(t) ==
    \/ \E text \in ExceptionTexts : run_raise(t, text)
    \/ /\ ~IsEmpty(get_user_config(data, tasks[t].user))
       /\ heap[get_user_config(data, tasks[t].user)].enabled
       /\ IntRaises(tasks[t].channel_id)
       /\ \E found \in BOOLEAN : run_wake(t, found)

C10_ExceptionsNotFatal ==
    [][\A t \in 1..Len(tasks) :
        LET u == tasks[t].user
            e == Len(logs'.errors)
        IN  /\ Raises(t) =>
                /\ e = Len(logs.errors) + 1
                /\ SubSeq(logs'.errors, 1, e - 1) = logs.errors
                /\ logs'.errors[e].user_id = str(u)
                /\ logs'.messages = logs.messages
                /\ Sums(heap', data', u) = Sums(heap, data, u)
                /\ disk' = disk
                /\ tasks'[t].pc = "backoff"
                /\ tasks'[t].wake = now + RETRY_MINUTES
            /\ run_retry(t) =>
                /\ tasks'[t].pc = "sleep"
                /\ tasks'[t].interval = tasks[t].interval
            /\ (IsLive(tasks[t]) /\ ~IsLive(tasks'[t])) =>
                \/ tasks'[t].pc = "cancelled"
                \/ /\ tasks'[t].pc = "done"
                   /\ \/ IsEmpty(get_user_config(data, u))
                      \/ ~heap[get_user_config(data, u)].enabled]_vars

C10_Witness ==
    \E t \in 1..Len(tasks) :
        /\ tasks[t].pc = "backoff"
        /\ tasks[t].wake = now + RETRY_MINUTES
        /\ logs.errors # <<>>
        /\ logs.errors[Len(logs.errors)].error =
                ScheduleError(tasks[t].user, RateLimitText)
        /\ logs.errors[Len(logs.errors)].timestamp = now
        /\ Sums(heap, data, tasks[t].user) = <<0, None>>
\* C11: once a user's config has been deleted, the user has no persisted
\* config and no live loop, and only a new setup by that user brings a config
\* back: no start, stop, edit or dashboard button does.
C11_DeletedUntilSetup ==
    [][\A u \in Users :
        /\ yes_callback(u) =>
            /\ IsEmpty(data'[u])
            /\ ~disk'[u].present
            /\ LiveIn(tasks', u) = {}
        /\ (IsEmpty(data[u]) /\ ~IsEmpty(data'[u])) =>
            \E lines \in ValidSetupReplies : setup_command(u, lines)]_vars

\* C12: total_sent of a user's config never decreases, whatever the
\* operation, while the user has a config.
C12_TotalSentMonotone ==
    [][\A u \in Users :
        (~IsEmpty(data[u]) /\ ~IsEmpty(data'[u])) =>
            /\ heap'[data'[u]].total_sent >= heap[data[u]].total_sent
            /\ disk'[u].config.total_sent >= disk[u].config.total_sent]_vars

\* C12, for the steps that are no setup: total_sent never decreases in a
\* step that is not a setup (which stores a new config, counted from 0).
C12_MonotoneButForSetup ==
    [][\A u \in Users :
        (~IsEmpty(data[u]) /\ ~IsEmpty(data'[u])
            /\ ~\E lines \in ValidSetupReplies : setup_command(u, lines)) =>
            heap'[data'[u]].total_sent >= heap[data[u]].total_sent]_vars
\* C13: a loop launched by start_user_schedule uses the interval, channel_id
\* and message the user's config had when start was called (nothing changes
\* them between create_task and the task's first step, which captures them),
\* and keeps the captured values for its whole life, whatever happens to the
\* config afterwards.
Captured(h, d, u) ==
    IF IsEmpty(d[u]) THEN <<None, <<>>, <<>>>>
    ELSE <<h[d[u]].interval, h[d[u]].channel_id, h[d[u]].message>>

C13_KeepsCaptured ==
    \A t \in 1..Len(tasks) :
        /\ (tasks[t].pc = "created" /\ run_start(t) /\ IsLive(tasks'[t])) =>
            <<tasks'[t].interval, tasks'[t].channel_id, tasks'[t].message>>
                = Captured(heap, data, tasks[t].user)
        /\ (IsLive(tasks[t]) /\ tasks[t].pc # "created" /\ IsLive(tasks'[t])) =>
            /\ tasks'[t].interval = tasks[t].interval
            /\ tasks'[t].channel_id = tasks[t].channel_id
            /\ tasks'[t].message = tasks[t].message
            /\ tasks'[t].wake # tasks[t].wake =>
                    tasks'[t].wake \in {now + tasks[t].interval, now + RETRY_MINUTES}

C13_LoopUsesConfigAtStart ==
    [][/\ C13_KeepsCaptured
       /\ \A t \in 1..Len(tasks) :
            (tasks[t].pc = "created" /\ tasks'[t].pc = "created") =>
                Captured(heap', data', tasks[t].user)
                    = Captured(heap, data, tasks[t].user)]_vars
\* C14: stop_user_schedule cancels and unregisters the user's loop if one is
\* registered and does nothing otherwise; a second call changes nothing more,
\* and the loops and registrations of the other users are untouched (the
\* config store is no part of what it works on).
C14_StopIdempotent ==
    \A u \in Users :
        LET once == stop_user_schedule(tasks, active_tasks, u)
            twice == stop_user_schedule(once.tasks, once.active_tasks, u)
        IN  /\ twice = once
            /\ once.active_tasks[u] = NoTask
            /\ Len(once.tasks) = Len(tasks)
            /\ LiveIn(once.tasks, u) = {}
            /\ active_tasks[u] = NoTask =>
                    once = [tasks |-> tasks, active_tasks |-> active_tasks]
            /\ \A v \in Users \ {u} : once.active_tasks[v] = active_tasks[v]
            /\ \A t \in 1..Len(tasks) : tasks[t].user # u => once.tasks[t] = tasks[t]

C14_Witness ==
    \E u, v \in Users :
        /\ u # v
        /\ halted[u] /\ active_tasks[u] = NoTask
        /\ \E t \in LoopsOf(u) : tasks[t].pc = "cancelled"
        /\ active_tasks[v] # NoTask /\ LiveLoops(v) # {}

\* C15: delete_user_config returns True exactly when the user had a record;
\* afterwards get_user_config yields the empty value and get_user_stats
\* None, the records of the other users are as they were, and a second
\* delete returns False.
C15_Delete ==
    [][\A u \in Users :
        LET d == delete_user_config(data, u) IN
        /\ delete_returns(data, u) <=> ~IsEmpty(get_user_config(data, u))
        /\ IsEmpty(get_user_config(d, u))
        /\ get_user_stats(heap, d, logs, u).none
        /\ ~delete_returns(d, u)
        /\ \A v \in Users \ {u} : get_user_config(d, v) = get_user_config(data, v)
        /\ yes_callback(u) =>
            /\ IsEmpty(get_user_config(data', u))
            /\ get_user_stats(heap', data', logs', u).none
            /\ ~disk'[u].present
            /\ \A v \in Users \ {u} :
                /\ data'[v] = data[v]
                /\ ~IsEmpty(data[v]) => heap'[data'[v]] = heap[data[v]]
                /\ disk'[v].present <=> disk[v].present]_vars

C15_Witness ==
    \E u, v \in Users :
        /\ u # v
        /\ IsEmpty(data[u]) /\ ~disk[u].present /\ LoopsOf(u) # {}
        /\ ~dash[u].open
        /\ ~IsEmpty(data[v]) /\ disk[v].present

\* C16: a setup reply that fails validation (fewer than 4 lines, empty token,
\* channel id that is no number, interval that is no number or below 1,
\* empty message) changes nothing: not the config store, not the user's
\* config and loop, not the live loops.
Invalid(lines) ==
    \/ Len(lines) < 4
    \/ strip(lines[1]) = <<>>
    \/ ~isdigit(strip(lines[2]))
    \/ ~isdigit(strip(lines[3]))
    \/ int(strip(lines[3])) < 1
    \/ strip(join(SubSeq(lines, 4, Len(lines)))) = <<>>

InvalidSetupReplies == {lines \in SetupReplies : Invalid(lines)}

C16_RejectedSetupChangesNothing ==
    [][\A u \in Users : \A lines \in InvalidSetupReplies :
        (<<heap, data, disk, tasks, active_tasks>>'
            # <<heap, data, disk, tasks, active_tasks>>) =>
                ~setup_command(u, lines)]_vars

C16_Witness ==
    \E u \in Actors :
        /\ ~IsEmpty(data[u]) /\ LiveLoops(u) # {}
        /\ heap[data[u]].interval = 2
        /\ \E lines \in InvalidSetupReplies : ENABLED setup_command(u, lines)
\* C17: loading the config store from a file that is missing, cannot be
\* opened or does not parse yields the empty mapping and raises nothing; a
\* write of the file that fails raises nothing either: the update stands in
\* memory, and the file does not have it.
Files == [state : FileStates, write : WriteModes]

C17_FileFailuresContained ==
    [][/\ \A f \in Files :
            /\ ~load_data(f, disk).raised
            /\ f.state # "ok" => load_data(f, disk).value = NoData
            /\ f.state = "ok" => load_data(f, disk).value = disk
            /\ ~write_data(f, disk, heap, data).raised
       /\ (restart /\ file.state # "ok") => data' = [u \in Users |-> NoObj]
       /\ (restart /\ file.state = "ok") => FileOf(heap', data') = disk
       /\ \A u \in Users : \A config \in PersistedConfigs :
            (file.write # "ok" /\ store(u, config)) =>
                /\ ~IsEmpty(get_user_config(data', u))
                /\ heap'[get_user_config(data', u)] = config
                /\ disk' = disk
                /\ file'.state \in {file.state, "corrupt"}
       /\ \A u \in Users :
            (file.write # "ok" /\ remove(u)) =>
                /\ IsEmpty(get_user_config(data', u))
                /\ disk' = disk]_vars

C17_Witness ==
    \E u, v \in Users :
        /\ file.state = "corrupt" /\ file.write = "denied"
        /\ ~IsEmpty(data[u]) /\ ~disk[u].present
        /\ IsEmpty(data[v]) /\ disk[v].present
\* C18: every stored delivery entry has a message of at most 100 characters,
\* the first 100 of the text given to log_message, and every stored error
\* entry an error text of at most 500 characters, the first 500 of the text
\* given to log_error; the text sent to the channel is the whole message.
FirstOf(kept, text, budget) ==
    /\ Len(kept) = (IF Len(text) < budget THEN Len(text) ELSE budget)
    /\ \A i \in 1..Len(kept) : kept[i] = text[i]

NewMessage == logs'.messages[Len(logs'.messages)].message
NewError == logs'.errors[Len(logs'.errors)].error

C18_EntriesTruncated ==
    [][/\ \A i \in 1..Len(logs.messages) :
            Len(logs.messages[i].message) <= MESSAGE_BUDGET
       /\ \A i \in 1..Len(logs.errors) : Len(logs.errors[i].error) <= ERROR_BUDGET
       /\ \A t \in 1..Len(tasks) :
            /\ run_sent(t) =>
                /\ Len(logs'.messages) = Len(logs.messages) + 1
                /\ FirstOf(NewMessage, heap[tasks[t].cfg].message, MESSAGE_BUDGET)
                /\ outbox'[Len(outbox')].message = heap[tasks[t].cfg].message
            /\ (Cycling(t) /\ run_wake(t, FALSE)) =>
                /\ FirstOf(NewMessage, tasks[t].message, MESSAGE_BUDGET)
                /\ FirstOf(NewError, ChannelNotFound(tasks[t].channel_id), ERROR_BUDGET)
            /\ \A text \in LongExceptionTexts :
                run_raise(t, text) =>
                    FirstOf(NewError, ScheduleError(tasks[t].user, text), ERROR_BUDGET)]_vars

C18_Witness ==
    /\ \E i \in 1..Len(logs.messages) :
        /\ Len(logs.messages[i].message) = MESSAGE_BUDGET
        /\ logs.messages[i].status = "sent"
    /\ \E i \in 1..Len(outbox) : Len(outbox[i].message) = MESSAGE_BUDGET + 1
    /\ \E i \in 1..Len(logs.errors) : Len(logs.errors[i].error) = ERROR_BUDGET
\* C19: no entry of the delivery log or of the error log, in memory or in
\* LOG_FILE, contains a user's token: the token is in the config and
\* nowhere in the Log Store.
Contains(text, part) ==
    \E i \in 1..Len(text) - Len(part) + 1 : SubSeq(text, i, i + Len(part) - 1) = part

Secrets ==
    {heap[o].token : o \in 1..Len(heap)} \cup {disk[u].config.token : u \in Users}
        \cup {strip(lines[1]) : lines \in WizardReplies}

Secret(text) == \E token \in Secrets \ {<<>>} : Contains(text, token)

NoSecretIn(L) ==
    /\ \A i \in 1..Len(L.messages) :
        /\ ~Secret(L.messages[i].message)
        /\ ~Secret(L.messages[i].channel_id)
        /\ ~Secret(L.messages[i].user_id)
    /\ \A i \in 1..Len(L.errors) :
        /\ ~Secret(L.errors[i].error)
        /\ ~Secret(L.errors[i].user_id)

C19_NoTokenInLogs == NoSecretIn(logs) /\ NoSecretIn(logfile) /\ NoSecretIn(appended)

C19_Witness ==
    /\ logs.errors # <<>>
    /\ Contains(logs.errors[1].error, SetupErrorText)
    /\ \E u \in Users : ~IsEmpty(data[u]) /\ heap[data[u]].token = <<"K">>
            /\ heap[data[u]].created_at = now /\ LiveLoops(u) # {}
\* C20: a loop cancelled in its sleep or in its send (by a stop, a delete,
\* the restart of an edit, a new setup or start) does nothing afterwards: it
\* writes no total_sent or last_sent, appends no log entry, sends nothing
\* and stores no config record.  Whatever is sent, counted or logged for a
\* delivery comes from the loop that is registered for the user.
Acts(t) ==
    \/ run_start(t)
    \/ \E found \in BOOLEAN : run_wake(t, found)
    \/ run_sent(t)
    \/ \E text \in ExceptionTexts : run_raise(t, text)
    \/ run_retry(t)

Superseded(t) == ~IsLive(tasks[t]) \/ active_tasks[tasks[t].user] # t

C20_CancelledLoopsAreSilent ==
    [][/\ \A t \in 1..Len(tasks) :
            /\ Superseded(t) => (tasks'[t] = tasks[t] /\ ~Acts(t))
            /\ (tasks[t].pc = "send" /\ tasks'[t].pc = "sleep") =>
                (run_sent(t) /\ data' = data)
       /\ (outbox' # outbox \/ logs'.messages # logs.messages) =>
            \E t \in 1..Len(tasks) : ~Superseded(t) /\ Acts(t)
       /\ \A u \in Users :
            (data'[u] = data[u] /\ ~IsEmpty(data[u])
                /\ Sums(heap', data', u) # Sums(heap, data, u)) =>
                    (active_tasks[u] # NoTask /\ run_sent(active_tasks[u]))]_vars

C20_Witness ==
    \E t \in 1..Len(tasks) :
        LET u == tasks[t].user IN
        /\ tasks[t].pc = "cancelled"
        /\ halted[u] /\ LiveLoops(u) = {}
        /\ ~IsEmpty(data[u])
        /\ now >= heap[data[u]].created_at + heap[data[u]].interval
        /\ heap[data[u]].interval >= MIN_INTERVAL
        /\ Sums(heap, data, u) = <<0, None>>
        /\ \A i \in 1..Len(outbox) : outbox[i].user # u
        /\ \A i \in 1..Len(logs.messages) : logs.messages[i].user_id # str(u)

\* C21: when a loop calls channel.send, the channel and the text it sends are
\* those of the user's config record in the store at that moment.
C21_SendsWhatIsStored ==
    [][\A t \in 1..Len(tasks) :
        (tasks[t].pc = "sleep" /\ tasks'[t].pc = "send") =>
            LET config == get_user_config(data, tasks[t].user) IN
            /\ ~IsEmpty(config)
            /\ heap[config].message = tasks[t].message
            /\ heap[config].channel_id = tasks[t].channel_id]_vars

\* C22: a send that completes raises the user's total_sent by exactly 1,
\* sets last_sent, rewrites the config file and appends exactly one delivery
\* entry with status "sent", all in the one step that follows the send; no
\* other step of a loop changes total_sent.
Counted(u) ==
    Sums(heap', data', u)[1] # Sums(heap, data, u)[1]

C22_SendCountsOnce ==
    [][/\ \A t \in 1..Len(tasks) :
            (tasks[t].pc = "send" /\ tasks'[t].pc = "sleep") =>
                LET u == tasks[t].user
                    m == Len(appended'.messages)
                IN  /\ run_sent(t)
                    /\ ~IsEmpty(data[u]) /\ data'[u] = data[u]
                    /\ Sums(heap', data', u) = <<heap[data[u]].total_sent + 1, now>>
                    /\ disk'[u] = [present |-> TRUE, config |-> heap'[data'[u]]]
                    /\ disk' = FileOf(heap', data')
                    /\ m = Len(appended.messages) + 1
                    /\ SubSeq(appended'.messages, 1, m - 1) = appended.messages
                    /\ appended'.messages[m].status = "sent"
                    /\ appended'.messages[m].user_id = str(u)
                    /\ logs'.messages[Len(logs'.messages)] = appended'.messages[m]
                    /\ appended'.errors = appended.errors
                    /\ Len(outbox') = Len(outbox) + 1
                    /\ \A v \in Users \ {u} : ~Counted(v)
       /\ (\E u \in Users : Counted(u)) =>
            \A t \in 1..Len(tasks) :
                /\ ~run_start(t)
                /\ \A found \in BOOLEAN : ~run_wake(t, found)
                /\ \A text \in ExceptionTexts : ~run_raise(t, text)
                /\ ~run_retry(t)]_vars

C22_Witness ==
    \E u \in Users :
        /\ ~IsEmpty(data[u])
        /\ Sums(heap, data, u) = <<1, now>>
        /\ disk[u].present /\ disk[u].config.total_sent = 1
        /\ Len(outbox) = 1 /\ outbox[1].user = u /\ outbox[1].time = now
        /\ Len(logs.messages) = 1 /\ logs.messages[1].status = "sent"
        /\ logfile = logs

\* C23: a loop that wakes from its sleep and finds the user's config absent
\* or disabled leaves the loop: it sends nothing, changes no config, writes
\* no log entry, and never acts again.
Exits(t) ==
    LET config == get_user_config(data, tasks[t].user) IN
    /\ tasks[t].pc = "sleep" /\ tasks[t].wake <= now
    /\ IsEmpty(config) \/ ~heap[config].enabled

C23_DisabledLoopExits ==
    [][\A t \in 1..Len(tasks) :
        /\ (Exits(t) /\ \E found \in BOOLEAN : run_wake(t, found)) =>
                /\ tasks'[t].pc = "done"
                /\ UNCHANGED <<heap, data, disk, outbox, logs, logfile, appended>>
        /\ tasks[t].pc = "done" =>
                (tasks'[t] = tasks[t] /\ ~Acts(t))]_vars

C23_Witness ==
    \E t \in 1..Len(tasks) :
        /\ tasks[t].pc = "done"
        /\ ~IsEmpty(data[tasks[t].user])
        /\ ~heap[data[tasks[t].user]].enabled

\* C24: every (re)start of a user's loop, by setup, start, edit or on_ready,
\* leaves the user one loop that begins a full sleep: the first delivery
\* attempt of the new loop comes a full interval after the (re)start, and
\* two consecutive delivery attempts for a user are at least one interval
\* apart.
AttemptTimes(u) ==
    {outbox[i].time : i \in {j \in 1..Len(outbox) : outbox[j].user = u}} \cup
    {appended.messages[i].timestamp :
        i \in {j \in 1..Len(appended.messages) :
                    appended.messages[j].user_id = str(u)}}

C24_RestartResetsTimer ==
    [][\A t \in 1..Len(tasks') :
        IF t > Len(tasks)
        THEN /\ tasks'[t].pc = "created" /\ tasks'[t].wake = now
             /\ LiveIn(tasks', tasks'[t].user) = {t}
        ELSE LET u == tasks[t].user IN
             /\ tasks[t].pc = "created" => tasks[t].wake = now
             /\ (tasks[t].pc = "created" /\ tasks'[t].pc = "sleep") =>
                    /\ tasks'[t].interval = heap[data[u]].interval
                    /\ tasks'[t].wake = now + tasks'[t].interval
             /\ (tasks[t].pc = "sleep" /\ tasks'[t].pc = "sleep"
                    /\ tasks'[t].wake # tasks[t].wake) =>
                    tasks'[t].wake = now + tasks[t].interval
             /\ (tasks[t].pc = "sleep" /\ Cycling(t)
                    /\ \E found \in BOOLEAN : run_wake(t, found)) =>
                    /\ now >= tasks[t].wake
                    /\ \A a \in AttemptTimes(u) : now >= a + tasks[t].interval]_vars

C24_Witness ==
    \E u \in Users :
        /\ ~IsEmpty(data[u]) /\ heap[data[u]].interval >= MIN_INTERVAL
        /\ Len(outbox) = 2 /\ outbox[1].user = u /\ outbox[2].user = u
        /\ outbox[2].time > outbox[1].time + heap[data[u]].interval
        /\ \A i \in 1..Len(appended.messages) : appended.messages[i].status = "sent"
        /\ \E t \in 1..Len(tasks) : tasks[t].user = u /\ tasks[t].pc = "cancelled"
        /\ \E t \in LiveLoops(u) : tasks[t].pc = "sleep" /\ tasks[t].wake > now

\* C25: an operation performed for one user (a command or dashboard button
\* of that user, a cycle of that user's loop) leaves the config record and
\* the loop state of every other user as they were.  Every save rewrites
\* the whole file, so it may bring another user's record on file up to that
\* user's record in memory, and writes nothing else of it.
\* A step that changes several users at once is on_ready, which restarts
\* every enabled schedule.
Record(h, d, u) == IF IsEmpty(d[u]) THEN NoConfig ELSE h[d[u]]

Changed(u) ==
    \/ Record(heap', data', u) # Record(heap, data, u)
    \/ IsEmpty(data'[u]) # IsEmpty(data[u])
    \/ disk'[u] \notin {disk[u], FileOf(heap, data)[u]}
    \/ active_tasks'[u] # active_tasks[u]
    \/ LiveIn(tasks', u) # LiveIn(tasks, u)
    \/ \E t \in 1..Len(tasks) : tasks[t].user = u /\ tasks'[t] # tasks[t]

OperationOf(a) ==
    \/ \E lines \in SetupReplies : setup_command(a, lines)
    \/ stop_command(a) \/ start_command(a)
    \/ dashboard_command(a) \/ stop_callback(a) \/ start_callback(a)
    \/ yes_callback(a)
    \/ edit_command(a) \/ edit_save(a)
    \/ \E reply \in EditReplies : edit_reply(a, reply)
    \/ \E t \in 1..Len(tasks) : tasks[t].user = a /\ Acts(t)

C25_OtherUsersUntouched ==
    [][\A b \in Users : Changed(b) =>
            \A a \in Users \ {b} :
                /\ ~OperationOf(a)
                /\ Changed(a) => on_ready]_vars

C25_Witness ==
    \E a, b \in Users :
        /\ a # b
        /\ ~IsEmpty(data[a]) /\ heap[data[a]].total_sent = 1
        /\ \E t \in 1..Len(tasks) : tasks[t].user = a /\ tasks[t].pc = "cancelled"
        /\ ~IsEmpty(data[b]) /\ heap[data[b]] \in PersistedConfigs
        /\ disk[b].config = heap[data[b]]
        /\ Cardinality(LiveLoops(b)) = 1

\* C26: a stop (stop command, Stop button) and a start (start command, Start
\* button) change nothing of the user's record in the store but its enabled
\* flag, also when the button is of a dashboard rendered before a later
\* setup or edit.
C26_StopChangesOnlyEnabled ==
    [][\A u \in Users :
        (Record(heap', data', u) # Record(heap, data, u)
            /\ (stop_command(u) \/ stop_callback(u)
                    \/ start_command(u) \/ start_callback(u))) =>
            /\ ~IsEmpty(data[u])
            /\ \E value \in BOOLEAN :
                Record(heap', data', u) =
                    [Record(heap, data, u) EXCEPT !.enabled = value]]_vars

\* C27: for a user with a config, failed_logs of get_user_stats is the
\* number of the user's delivery entries in the log that record a failed
\* attempt, and successful_logs the number with status "sent".
Failed(e) == e.status \in {"failed", "failed - channel not found"}

C27_StatsCountFailures ==
    \A u \in Users :
        LET user_stats == get_user_stats(heap, data, logs, u)
            entries == SelectSeq(logs.messages, LAMBDA e : e.user_id = str(u))
        IN  ~user_stats.none =>
                /\ user_stats.stats.failed_logs = Len(SelectSeq(entries, Failed))
                /\ user_stats.stats.successful_logs =
                        Len(SelectSeq(entries, LAMBDA e : e.status = "sent"))

C29_FileMatchesMemory == disk = FileOf(heap, data)

\* C30: active_tasks holds an entry for a user exactly when the user has a
\* live (unfinished, uncancelled) loop, so that the number of its entries,
\* the "Active Tasks" of the admin panel, is the number of live loops, a
\* loop that has left its `while` by itself included.
ActiveTasks == Cardinality({u \in Users : active_tasks[u] # NoTask})

====
